---------------------------- MODULE Spec2Model ----------------------------
(***************************************************************************)
(* Model of python/fusion_engine_client/messages/control.py: the pack and  *)
(* unpack methods of CommandResponseMessage, MessageRequest and            *)
(* ResetRequest, over byte buffers written and read with the struct        *)
(* module's pack_into / unpack_from.                                       *)
(*                                                                         *)
(* Representation.  A byte is a number in 0..255 and a buffer a sequence   *)
(* of bytes (index 1 of the sequence is byte 0 of the buffer).  TLC's      *)
(* integers are 32-bit signed, so an unsigned 32-bit field is carried as   *)
(* its two 16-bit halves [hi, lo], value hi * 65536 + lo.  A field that    *)
(* Python holds either as an enum member or as a plain int is a record     *)
(* [kind, value], kind naming the Python type.  Offsets are drawn from     *)
(* 0..MaxOffset (non-negative).                                            *)
(***************************************************************************)
EXTENDS Integers, Sequences, FiniteSets, TLC

VARIABLES
    msg,      \* the caller's message instance
    buffer,   \* the caller's bytearray
    last,     \* the last call: its arguments, its outcome, the state before it
    nops,     \* number of pack and unpack calls so far
    sent,     \* history: the message last packed into the caller's buffer
    decoded   \* history: the bytes the instance's fields were last unpacked from

vars == <<msg, buffer, last, nops, sent, decoded>>

\* Longest caller buffer, largest offset and number of pack/unpack calls.
MaxBufLen == 9
MaxOffset == 1
MaxOps == 2

(***************************************************************************)
(* struct: a format string is the sequence of its characters, the byte     *)
(* order first and a repeat count written out ('<H2x' is "<", "H", "x",    *)
(* "x").  Standard sizes, no alignment.                                    *)
(***************************************************************************)
U32(hi, lo) == [hi |-> hi, lo |-> lo]

\* Size in bytes of one format code.
CodeSize(c) == CASE c = "I" -> 4 [] c = "H" -> 2 [] c = "B" -> 1 [] c = "x" -> 1

RECURSIVE CodesSize(_)
CodesSize(codes) ==
    IF codes = <<>> THEN 0 ELSE CodeSize(Head(codes)) + CodesSize(Tail(codes))

\* struct.calcsize(fmt)
struct_calcsize(fmt) == CodesSize(Tail(fmt))

\* 256^i for the byte positions of a 16-bit half.
Pow256(i) == IF i = 0 THEN 1 ELSE 256

\* The w (1 or 2) little-endian bytes of n < 256^w.
LEBytes(n, w) == [i \in 1..w |-> (n \div Pow256(i - 1)) % 256]

\* The number whose little-endian bytes are bs (at most 2 bytes).
LEValue(bs) == IF Len(bs) = 1 THEN bs[1] ELSE bs[1] + 256 * bs[2]

Reverse(bs) == [i \in 1..Len(bs) |-> bs[Len(bs) + 1 - i]]

\* The bytes of a value in byte order "<" (little-endian) or ">".
Ordered(order, bs) == IF order = "<" THEN bs ELSE Reverse(bs)

\* The bytes one value occupies under format code c.
PackValue(order, c, v) ==
    CASE c = "I" -> Ordered(order, LEBytes(v.lo, 2) \o LEBytes(v.hi, 2))
      [] c = "H" -> Ordered(order, LEBytes(v, 2))
      [] c = "B" -> LEBytes(v, 1)

\* The value of format code c held in bytes bs.
UnpackValue(order, c, bs) ==
    CASE c = "I" -> U32(LEValue(SubSeq(Ordered(order, bs), 3, 4)),
                        LEValue(SubSeq(Ordered(order, bs), 1, 2)))
      [] c = "H" -> LEValue(Ordered(order, bs))
      [] c = "B" -> LEValue(bs)

\* The bytes of a whole format: pad codes ("x") are written as zero bytes.
RECURSIVE PackFields(_, _, _)
PackFields(order, codes, vals) ==
    IF codes = <<>> THEN <<>>
    ELSE IF Head(codes) = "x" THEN <<0>> \o PackFields(order, Tail(codes), vals)
    ELSE PackValue(order, Head(codes), Head(vals))
         \o PackFields(order, Tail(codes), Tail(vals))

\* struct.pack(fmt, *vals)
struct_pack(fmt, vals) == PackFields(Head(fmt), Tail(fmt), vals)

\* The values of a whole format: pad codes are skipped.
RECURSIVE UnpackFields(_, _, _)
UnpackFields(order, codes, bs) ==
    IF codes = <<>> THEN <<>>
    ELSE IF Head(codes) = "x" THEN UnpackFields(order, Tail(codes), Tail(bs))
    ELSE <<UnpackValue(order, Head(codes), SubSeq(bs, 1, CodeSize(Head(codes))))>>
         \o UnpackFields(order, Tail(codes),
                         SubSeq(bs, CodeSize(Head(codes)) + 1, Len(bs)))

\* struct.unpack(fmt, bs)
struct_unpack(fmt, bs) == UnpackFields(Head(fmt), Tail(fmt), bs)

\* struct.pack_into(fmt, buffer, offset, *vals) for offset >= 0 and values
\* within their widths: struct.error when the format does not fit at the
\* offset, else the buffer with exactly the format's bytes replaced.
struct_pack_into(fmt, buf, offset, vals) ==
    IF Len(buf) - offset < struct_calcsize(fmt)
    THEN [raised |-> "struct.error", buffer |-> buf]
    ELSE [raised |-> "none",
          buffer |-> [i \in 1..Len(buf) |->
                        IF offset < i /\ i <= offset + struct_calcsize(fmt)
                        THEN struct_pack(fmt, vals)[i - offset]
                        ELSE buf[i]]]

\* struct.unpack_from(fmt, buffer, offset) for offset >= 0.
struct_unpack_from(fmt, buf, offset) ==
    IF Len(buf) - offset < struct_calcsize(fmt)
    THEN [raised |-> "struct.error", vals |-> <<>>]
    ELSE [raised |-> "none",
          vals |-> struct_unpack(fmt, SubSeq(buf, offset + 1,
                                             offset + struct_calcsize(fmt)))]

\* bytearray(n): n zero bytes.
bytearray(n) == [i \in 1..n |-> 0]

(***************************************************************************)
(* Values the methods exchange.                                            *)
(***************************************************************************)
\* The buffer argument of pack: a caller's bytearray, or None.
Supplied(bs) == [given |-> TRUE, bytes |-> bs]
None == [given |-> FALSE, bytes |-> <<>>]

\* What a call returns: an int, a buffer object (the caller's or one the
\* call allocated), or nothing (the call raised, or no call yet).
RetInt(n) == [kind |-> "int", n |-> n, obj |-> "none", bytes |-> <<>>]
RetBuffer(obj, bs) == [kind |-> "buffer", n |-> 0, obj |-> obj, bytes |-> bs]
RetNothing == [kind |-> "none", n |-> 0, obj |-> "none", bytes |-> <<>>]

\* The outcome of a pack call: the exception raised ("none" if it returned),
\* the buffer object written into and its bytes after the call, the value
\* returned.
PackOutcome(raised, obj, bs, ret) ==
    [raised |-> raised, obj |-> obj, bytes |-> bs, ret |-> ret]

\* The outcome of an unpack call: the exception raised, the instance after
\* the call, the value returned.
UnpackOutcome(raised, self, ret) == [raised |-> raised, self |-> self, ret |-> ret]

(***************************************************************************)
(* CommandResponseMessage                                                  *)
(***************************************************************************)
OK == 0
UNSUPPORTED_CMD_VERSION == 1
UNSUPPORTED_FEATURE == 2
VALUE_ERROR == 3
INSUFFICIENT_SPACE == 4
EXECUTION_FAILURE == 5

ResponseValues ==
    {OK, UNSUPPORTED_CMD_VERSION, UNSUPPORTED_FEATURE, VALUE_ERROR,
     INSUFFICIENT_SPACE, EXECUTION_FAILURE}

\* A member of the IntEnum Response, and a plain int.
ResponseMember(v) == [kind |-> "Response", value |-> v]
PlainInt(v) == [kind |-> "int", value |-> v]

\* CommandResponseMessage.Response(v): the member of value v, or ValueError.
Response(v) ==
    IF v \in ResponseValues
    THEN [raised |-> "none", member |-> ResponseMember(v)]
    ELSE [raised |-> "ValueError", member |-> PlainInt(v)]

\* Faulty variant: the format in network byte order, '>IB3x'.
CommandResponseMessage_FORMAT_big_endian == <<">", "I", "B", "x", "x", "x">>

CommandResponseMessage_FORMAT == <<"<", "I", "B", "x", "x", "x">>
CommandResponseMessage_SIZE == struct_calcsize(CommandResponseMessage_FORMAT)
CommandResponseMessage_calcsize == CommandResponseMessage_SIZE

CommandResponseMessage_init ==
    [variant |-> "CommandResponseMessage",
     source_sequence_num |-> U32(0, 0),
     response |-> ResponseMember(OK)]

\* Faulty variant: with no buffer supplied, allocates offset + calcsize()
\* bytes, so that a write at any offset fits.
CommandResponseMessage_pack_growing(self, arg, offset, return_buffer) ==
    LET obj == IF arg.given THEN "supplied" ELSE "allocated"
        buf == IF arg.given THEN arg.bytes
               ELSE bytearray(offset + struct_calcsize(<<"<", "I", "B", "x", "x", "x">>))
        w == struct_pack_into(<<"<", "I", "B", "x", "x", "x">>, buf, offset,
                              <<self.source_sequence_num, self.response.value>>)
    IN  IF w.raised # "none" THEN PackOutcome(w.raised, obj, buf, RetNothing)
        ELSE IF return_buffer
        THEN PackOutcome("none", obj, w.buffer, RetBuffer(obj, w.buffer))
        ELSE PackOutcome("none", obj, w.buffer, RetInt(8 - offset))

CommandResponseMessage_pack(self, arg, offset, return_buffer) ==
    LET obj == IF arg.given THEN "supplied" ELSE "allocated"
        buf == IF arg.given THEN arg.bytes
               ELSE bytearray(CommandResponseMessage_calcsize)
        initial_offset == offset
        w == struct_pack_into(CommandResponseMessage_FORMAT, buf, offset,
                              <<self.source_sequence_num, self.response.value>>)
        end_offset == CommandResponseMessage_SIZE
    IN  IF w.raised # "none" THEN PackOutcome(w.raised, obj, buf, RetNothing)
        ELSE IF return_buffer
        THEN PackOutcome("none", obj, w.buffer, RetBuffer(obj, w.buffer))
        ELSE PackOutcome("none", obj, w.buffer, RetInt(end_offset - initial_offset))

\* Faulty variant: unpack_from is called without the offset.
CommandResponseMessage_unpack_at_zero(self, buf, offset) ==
    LET r == struct_unpack_from(<<"<", "I", "B", "x", "x", "x">>, buf, 0)
        conv == Response(r.vals[2])
    IN  IF r.raised # "none" THEN UnpackOutcome(r.raised, self, RetNothing)
        ELSE UnpackOutcome("none",
                           [self EXCEPT !.source_sequence_num = r.vals[1],
                                        !.response = conv.member],
                           RetInt(8 - offset))

\* Faulty variant: the ValueError of the enum conversion is not caught.
CommandResponseMessage_unpack_strict(self, buf, offset) ==
    LET r == struct_unpack_from(<<"<", "I", "B", "x", "x", "x">>, buf, offset)
        conv == Response(r.vals[2])
        read == [self EXCEPT !.source_sequence_num = r.vals[1],
                             !.response = conv.member]
    IN  IF r.raised # "none" THEN UnpackOutcome(r.raised, self, RetNothing)
        ELSE IF conv.raised # "none" THEN UnpackOutcome(conv.raised, read, RetNothing)
        ELSE UnpackOutcome("none", read, RetInt(8 - offset))

\* Faulty variant: the fields are read one at a time, each assigned as soon
\* as it is read, so that a buffer holding the first field and not the rest
\* changes the instance before the call raises.
CommandResponseMessage_unpack_fieldwise(self, buf, offset) ==
    LET first == struct_unpack_from(<<"<", "I">>, buf, offset)
        r == struct_unpack_from(<<"<", "I", "B", "x", "x", "x">>, buf, offset)
        conv == Response(r.vals[2])
    IN  IF first.raised # "none" THEN UnpackOutcome(first.raised, self, RetNothing)
        ELSE IF r.raised # "none"
        THEN UnpackOutcome(r.raised,
                           [self EXCEPT !.source_sequence_num = first.vals[1]],
                           RetNothing)
        ELSE UnpackOutcome("none",
                           [self EXCEPT !.source_sequence_num = r.vals[1],
                                        !.response = conv.member],
                           RetInt(8 - offset))

CommandResponseMessage_unpack(self, buf, offset) ==
    LET initial_offset == offset
        r == struct_unpack_from(CommandResponseMessage_FORMAT, buf, offset)
        read == [self EXCEPT !.source_sequence_num = r.vals[1],
                             !.response = PlainInt(r.vals[2])]
        end_offset == CommandResponseMessage_SIZE
        conv == Response(read.response.value)
        converted == IF conv.raised = "ValueError" THEN read
                     ELSE [read EXCEPT !.response = conv.member]
    IN  IF r.raised # "none" THEN UnpackOutcome(r.raised, self, RetNothing)
        ELSE UnpackOutcome("none", converted, RetInt(end_offset - initial_offset))

(***************************************************************************)
(* MessageRequest                                                          *)
(***************************************************************************)
\* MessageType is defined in messages/defs.py.  It is modelled as the open
\* enumeration of 16-bit identifiers: MessageType(v) yields a value whose
\* .value is v, for registered and unregistered v alike.
RegisteredMessageTypes == {0, 13000, 13001, 13002}
MessageType_INVALID == [kind |-> "MessageType", value |-> 0]
MessageType(v) == [raised |-> "none", member |-> [kind |-> "MessageType", value |-> v]]

MessageRequest_FORMAT == <<"<", "H", "x", "x">>
MessageRequest_SIZE == struct_calcsize(MessageRequest_FORMAT)
MessageRequest_calcsize == MessageRequest_SIZE

MessageRequest_init(message_type) ==
    [variant |-> "MessageRequest", message_type |-> message_type]

\* Faulty variant: only the field is written, the two padding bytes keep
\* what the buffer held.
MessageRequest_pack_unpadded(self, arg, offset, return_buffer) ==
    LET obj == IF arg.given THEN "supplied" ELSE "allocated"
        buf == IF arg.given THEN arg.bytes ELSE bytearray(4)
        fits == struct_pack_into(<<"<", "H", "x", "x">>, buf, offset,
                                 <<self.message_type.value>>)
        w == struct_pack_into(<<"<", "H">>, buf, offset, <<self.message_type.value>>)
    IN  IF fits.raised # "none" THEN PackOutcome(fits.raised, obj, buf, RetNothing)
        ELSE IF return_buffer
        THEN PackOutcome("none", obj, w.buffer, RetBuffer(obj, w.buffer))
        ELSE PackOutcome("none", obj, w.buffer, RetInt(4))

MessageRequest_pack(self, arg, offset, return_buffer) ==
    LET obj == IF arg.given THEN "supplied" ELSE "allocated"
        buf == IF arg.given THEN arg.bytes ELSE bytearray(MessageRequest_calcsize)
        initial_offset == offset
        w == struct_pack_into(MessageRequest_FORMAT, buf, offset,
                              <<self.message_type.value>>)
        end_offset == offset + MessageRequest_SIZE
    IN  IF w.raised # "none" THEN PackOutcome(w.raised, obj, buf, RetNothing)
        ELSE IF return_buffer
        THEN PackOutcome("none", obj, w.buffer, RetBuffer(obj, w.buffer))
        ELSE PackOutcome("none", obj, w.buffer, RetInt(end_offset - initial_offset))

\* Faulty variant: a value with no registered MessageType is rejected.
MessageRequest_unpack_registered_only(self, buf, offset) ==
    LET r == struct_unpack_from(<<"<", "H", "x", "x">>, buf, offset)
    IN  IF r.raised # "none" THEN UnpackOutcome(r.raised, self, RetNothing)
        ELSE IF r.vals[1] \notin RegisteredMessageTypes
        THEN UnpackOutcome("ValueError", self, RetNothing)
        ELSE UnpackOutcome("none",
                           [self EXCEPT !.message_type = MessageType(r.vals[1]).member],
                           RetInt(4))

MessageRequest_unpack(self, buf, offset) ==
    LET initial_offset == offset
        r == struct_unpack_from(MessageRequest_FORMAT, buf, offset)
        end_offset == offset + MessageRequest_SIZE
        conv == MessageType(r.vals[1])
    IN  IF r.raised # "none" THEN UnpackOutcome(r.raised, self, RetNothing)
        ELSE IF conv.raised # "none" THEN UnpackOutcome(conv.raised, self, RetNothing)
        ELSE UnpackOutcome("none", [self EXCEPT !.message_type = conv.member],
                           RetInt(end_offset - initial_offset))

(***************************************************************************)
(* ResetRequest                                                            *)
(***************************************************************************)
WARM_START == U32(0, 511)

ResetRequest_FORMAT == <<"<", "I">>
ResetRequest_SIZE == struct_calcsize(ResetRequest_FORMAT)
ResetRequest_calcsize == ResetRequest_SIZE

ResetRequest_init == [variant |-> "ResetRequest", reset_mask |-> U32(0, 0)]

\* Faulty variant: the result is built as buffer[:offset] + struct.pack(...),
\* a new object that drops what followed the region.
ResetRequest_pack_concatenating(self, arg, offset, return_buffer) ==
    LET buf == IF arg.given THEN arg.bytes ELSE bytearray(4)
        w == struct_pack_into(<<"<", "I">>, buf, offset, <<self.reset_mask>>)
        built == SubSeq(buf, 1, offset) \o struct_pack(<<"<", "I">>, <<self.reset_mask>>)
    IN  IF w.raised # "none" THEN PackOutcome(w.raised, "allocated", buf, RetNothing)
        ELSE IF return_buffer
        THEN PackOutcome("none", "allocated", built, RetBuffer("allocated", built))
        ELSE PackOutcome("none", "allocated", built, RetInt(4))

ResetRequest_pack(self, arg, offset, return_buffer) ==
    LET obj == IF arg.given THEN "supplied" ELSE "allocated"
        buf == IF arg.given THEN arg.bytes ELSE bytearray(ResetRequest_calcsize)
        w == struct_pack_into(ResetRequest_FORMAT, buf, offset, <<self.reset_mask>>)
    IN  IF w.raised # "none" THEN PackOutcome(w.raised, obj, buf, RetNothing)
        ELSE IF return_buffer
        THEN PackOutcome("none", obj, w.buffer, RetBuffer(obj, w.buffer))
        ELSE PackOutcome("none", obj, w.buffer, RetInt(ResetRequest_calcsize))

\* Faulty variant: a buffer that ends early is read as if zero bytes
\* followed it.
ResetRequest_unpack_zero_extended(self, buf, offset) ==
    LET r == struct_unpack_from(<<"<", "I">>, buf \o bytearray(4), offset)
    IN  IF r.raised # "none" THEN UnpackOutcome(r.raised, self, RetNothing)
        ELSE UnpackOutcome("none", [self EXCEPT !.reset_mask = r.vals[1]], RetInt(4))

ResetRequest_unpack(self, buf, offset) ==
    LET initial_offset == offset
        r == struct_unpack_from(ResetRequest_FORMAT, buf, offset)
        end_offset == offset + ResetRequest_SIZE
    IN  IF r.raised # "none" THEN UnpackOutcome(r.raised, self, RetNothing)
        ELSE UnpackOutcome("none", [self EXCEPT !.reset_mask = r.vals[1]],
                           RetInt(end_offset - initial_offset))

(***************************************************************************)
(* The caller: one message instance, one bytearray, and the last call.     *)
(***************************************************************************)
\* self.calcsize()
calcsize(self) ==
    CASE self.variant = "CommandResponseMessage" -> CommandResponseMessage_calcsize
      [] self.variant = "MessageRequest" -> MessageRequest_calcsize
      [] self.variant = "ResetRequest" -> ResetRequest_calcsize

\* Field values a caller assigns before encoding.
SequenceNumbers == {U32(0, 42), U32(65535, 65535)}
ResetMasks == {WARM_START, U32(65535, 65535)}

InitialMessages ==
    {[CommandResponseMessage_init EXCEPT !.source_sequence_num = n,
                                         !.response = ResponseMember(r)] :
        n \in SequenceNumbers, r \in ResponseValues}
    \cup {MessageRequest_init(MessageType(t).member) : t \in RegisteredMessageTypes}
    \cup {[ResetRequest_init EXCEPT !.reset_mask = m] : m \in ResetMasks}

\* A caller's bytearray of n bytes with prior contents C4 C5 C6 C7 C8 ...:
\* every byte is non-zero and differs from its neighbours.
PriorContents(n) == [i \in 1..n |-> 195 + i]

\* A caller's bytearray of n bytes, all 0xFF.
AllOnes(n) == [i \in 1..n |-> 255]

CallerBuffers == {PriorContents(n) : n \in 0..MaxBufLen} \cup {AllOnes(n) : n \in 0..MaxBufLen}

Offsets == 0..MaxOffset

NoCall ==
    [op |-> "none", variant |-> "none", offset |-> 0, given |-> FALSE,
     return_buffer |-> FALSE, raised |-> "none", ret |-> RetNothing,
     obj |-> "none", written |-> <<>>, pre_msg |-> msg, pre_buffer |-> buffer]

NotSent == [valid |-> FALSE, msg |-> CommandResponseMessage_init, offset |-> 0]
NotDecoded == [valid |-> FALSE, offset |-> 0, bytes |-> <<>>]

Init ==
    /\ msg \in InitialMessages
    /\ buffer \in CallerBuffers
    /\ last = NoCall
    /\ nops = 0
    /\ sent = NotSent
    /\ decoded = NotDecoded

\* The caller constructs a new instance and drops the old one.
Constructed(self) ==
    /\ msg' = self
    /\ last' = [NoCall EXCEPT !.op = "construct", !.variant = self.variant,
                               !.pre_msg = msg]
    /\ decoded' = NotDecoded
    /\ UNCHANGED <<buffer, nops, sent>>

NewCommandResponseMessage == Constructed(CommandResponseMessage_init)

NewMessageRequest == Constructed(MessageRequest_init(MessageType_INVALID))

NewResetRequest == Constructed(ResetRequest_init)

\* A pack call ended with outcome out.  A supplied bytearray is written in
\* place; a caller who passed None keeps the returned buffer as its buffer.
Packed(out, given, offset, return_buffer) ==
    /\ nops < MaxOps
    /\ nops' = nops + 1
    /\ buffer' = IF out.obj = "supplied" \/ out.ret.kind = "buffer"
                 THEN out.bytes ELSE buffer
    /\ last' = [op |-> "pack", variant |-> msg.variant, offset |-> offset,
                given |-> given, return_buffer |-> return_buffer,
                raised |-> out.raised, ret |-> out.ret, obj |-> out.obj,
                written |-> out.bytes, pre_msg |-> msg, pre_buffer |-> buffer]
    /\ sent' = IF out.raised = "none" /\ (out.obj = "supplied" \/ out.ret.kind = "buffer")
               THEN [valid |-> TRUE, msg |-> msg, offset |-> offset]
               ELSE sent
    /\ UNCHANGED <<msg, decoded>>

\* The n bytes of buf from offset on, as many as buf holds.
BytesAt(buf, offset, n) ==
    SubSeq(buf, offset + 1, IF offset + n <= Len(buf) THEN offset + n ELSE Len(buf))

\* An unpack call on the caller's buffer ended with outcome out.
Unpacked(out, offset) ==
    /\ nops < MaxOps
    /\ nops' = nops + 1
    /\ msg' = out.self
    /\ last' = [op |-> "unpack", variant |-> msg.variant, offset |-> offset,
                given |-> TRUE, return_buffer |-> FALSE,
                raised |-> out.raised, ret |-> out.ret, obj |-> "supplied",
                written |-> <<>>, pre_msg |-> msg, pre_buffer |-> buffer]
    /\ decoded' = IF out.raised = "none"
                  THEN [valid |-> TRUE, offset |-> offset,
                        bytes |-> BytesAt(buffer, offset, calcsize(msg))]
                  ELSE decoded
    /\ UNCHANGED <<buffer, sent>>

Arg(given) == IF given THEN Supplied(buffer) ELSE None

PackCommandResponseMessage ==
    /\ msg.variant = "CommandResponseMessage"
    /\ \E given \in BOOLEAN, offset \in Offsets, return_buffer \in BOOLEAN :
          Packed(CommandResponseMessage_pack(msg, Arg(given), offset, return_buffer),
                 given, offset, return_buffer)

UnpackCommandResponseMessage ==
    /\ msg.variant = "CommandResponseMessage"
    /\ \E offset \in Offsets :
          Unpacked(CommandResponseMessage_unpack(msg, buffer, offset), offset)

PackMessageRequest ==
    /\ msg.variant = "MessageRequest"
    /\ \E given \in BOOLEAN, offset \in Offsets, return_buffer \in BOOLEAN :
          Packed(MessageRequest_pack(msg, Arg(given), offset, return_buffer),
                 given, offset, return_buffer)

UnpackMessageRequest ==
    /\ msg.variant = "MessageRequest"
    /\ \E offset \in Offsets :
          Unpacked(MessageRequest_unpack(msg, buffer, offset), offset)

PackResetRequest ==
    /\ msg.variant = "ResetRequest"
    /\ \E given \in BOOLEAN, offset \in Offsets, return_buffer \in BOOLEAN :
          Packed(ResetRequest_pack(msg, Arg(given), offset, return_buffer),
                 given, offset, return_buffer)

UnpackResetRequest ==
    /\ msg.variant = "ResetRequest"
    /\ \E offset \in Offsets :
          Unpacked(ResetRequest_unpack(msg, buffer, offset), offset)

Next ==
    \/ NewCommandResponseMessage
    \/ NewMessageRequest
    \/ NewResetRequest
    \/ PackCommandResponseMessage
    \/ UnpackCommandResponseMessage
    \/ PackMessageRequest
    \/ UnpackMessageRequest
    \/ PackResetRequest
    \/ UnpackResetRequest

Spec == Init /\ [][Next]_vars

(***************************************************************************)
(* A second caller, for the properties quantified over byte values: it     *)
(* receives an 8-byte payload whose byte 0 and byte 4 take every value     *)
(* (byte 1 a few), decodes it into a newly constructed CommandResponse-    *)
(* Message or MessageRequest and encodes the instance again, every call    *)
(* with the default offset 0.                                              *)
(***************************************************************************)
ReceivedPayloads ==
    {[i \in 1..8 |-> CASE i = 1 -> b [] i = 5 -> b [] i = 2 -> h [] OTHER -> 195 + i] :
        b \in 0..255, h \in {0, 50, 255}}

InitBytes ==
    /\ msg \in {CommandResponseMessage_init, MessageRequest_init(MessageType_INVALID)}
    /\ buffer \in ReceivedPayloads
    /\ last = NoCall
    /\ nops = 0
    /\ sent = NotSent
    /\ decoded = NotDecoded

DecodeCommandResponse ==
    /\ msg.variant = "CommandResponseMessage"
    /\ Unpacked(CommandResponseMessage_unpack(msg, buffer, 0), 0)

EncodeCommandResponse ==
    /\ msg.variant = "CommandResponseMessage"
    /\ \E given \in BOOLEAN :
          Packed(CommandResponseMessage_pack(msg, Arg(given), 0, TRUE), given, 0, TRUE)

DecodeMessageRequest ==
    /\ msg.variant = "MessageRequest"
    /\ Unpacked(MessageRequest_unpack(msg, buffer, 0), 0)

EncodeMessageRequest ==
    /\ msg.variant = "MessageRequest"
    /\ \E given \in BOOLEAN :
          Packed(MessageRequest_pack(msg, Arg(given), 0, TRUE), given, 0, TRUE)

NextBytes ==
    \/ DecodeCommandResponse
    \/ EncodeCommandResponse
    \/ DecodeMessageRequest
    \/ EncodeMessageRequest

SpecBytes == InitBytes /\ [][NextBytes]_vars

(***************************************************************************)
(* Vocabulary of the properties.                                           *)
(***************************************************************************)
\* The documented wire size of a variant.
FixedSize(variant) ==
    CASE variant = "CommandResponseMessage" -> 8
      [] variant = "MessageRequest" -> 4
      [] variant = "ResetRequest" -> 4
      [] OTHER -> 0

PackReturned == last.op = "pack" /\ last.raised = "none"
UnpackReturned == last.op = "unpack" /\ last.raised = "none"

\* Length of the buffer the last call read or wrote (for pack without a
\* buffer, the one it allocated).
TargetLen == IF last.given THEN Len(last.pre_buffer) ELSE Len(last.written)

\* The bytes the last successful pack wrote: those at [offset, offset + size).
WrittenRegion ==
    SubSeq(last.written, last.offset + 1, last.offset + FixedSize(last.variant))

\* The bytes the last successful unpack read.
ReadRegion ==
    SubSeq(last.pre_buffer, last.offset + 1, last.offset + FixedSize(last.variant))

\* A newly constructed instance of some variant.
FreshInstances ==
    {CommandResponseMessage_init, ResetRequest_init}
    \cup {MessageRequest_init(MessageType(t).member) : t \in RegisteredMessageTypes}

\* Byte i (0..3) of an unsigned 32-bit value, (v >> 8*i) & 0xFF.
ByteOfU32(v, i) ==
    CASE i = 0 -> v.lo % 256
      [] i = 1 -> v.lo \div 256
      [] i = 2 -> v.hi % 256
      [] i = 3 -> v.hi \div 256

\* The documented encoding of a message.
WireBytes(m) ==
    CASE m.variant = "CommandResponseMessage" ->
            <<ByteOfU32(m.source_sequence_num, 0), ByteOfU32(m.source_sequence_num, 1),
              ByteOfU32(m.source_sequence_num, 2), ByteOfU32(m.source_sequence_num, 3),
              m.response.value, 0, 0, 0>>
      [] m.variant = "MessageRequest" ->
            <<m.message_type.value % 256, m.message_type.value \div 256, 0, 0>>
      [] m.variant = "ResetRequest" ->
            <<ByteOfU32(m.reset_mask, 0), ByteOfU32(m.reset_mask, 1),
              ByteOfU32(m.reset_mask, 2), ByteOfU32(m.reset_mask, 3)>>

(***************************************************************************)
(* Properties.                                                             *)
(***************************************************************************)
\* The last call unpacked a new instance, successfully, at the offset at
\* which a message of the same variant was last packed into the buffer.
DecodedWhatWasSent ==
    /\ UnpackReturned
    /\ last.pre_msg \in FreshInstances
    /\ sent.valid
    /\ sent.offset = last.offset
    /\ sent.msg.variant = msg.variant

\* C1: round trip.  Unpacking, into a new instance and at the same offset,
\* the buffer a message x was packed into yields field values equal to x's,
\* for each of the three variants.
RoundTrip == DecodedWhatWasSent => msg = sent.msg

RoundTripWitness ==
    /\ DecodedWhatWasSent
    /\ last.offset > 0
    /\ msg.variant = "CommandResponseMessage"
    /\ msg.source_sequence_num = U32(65535, 65535)
    /\ msg.response = ResponseMember(VALUE_ERROR)

\* The last call was given room for the whole message at its offset.
Fits == TargetLen - last.offset >= FixedSize(last.variant)

\* C2: unknown response codes are tolerated.  Unpacking a Command Response
\* whose byte 4 is not one of the six named codes succeeds and leaves
\* response holding that byte as a plain int; packing the instance
\* afterwards succeeds and writes the same byte at offset 4.
UnknownResponseTolerated ==
    /\ (/\ last.op = "unpack"
        /\ last.variant = "CommandResponseMessage"
        /\ Fits
        /\ ReadRegion[5] \notin 0..5)
       => (last.raised = "none" /\ msg.response = PlainInt(ReadRegion[5]))
    /\ (/\ last.op = "pack"
        /\ last.variant = "CommandResponseMessage"
        /\ Fits
        /\ decoded.valid
        /\ decoded.bytes[5] \notin 0..5)
       => (last.raised = "none" /\ WrittenRegion[5] = decoded.bytes[5])

UnknownResponseWitness ==
    /\ PackReturned
    /\ last.variant = "CommandResponseMessage"
    /\ ~last.given
    /\ decoded.valid
    /\ decoded.bytes[5] = 200
    /\ msg.response = PlainInt(200)
    /\ buffer[5] = 200

ReturnsFixedSize ==
    (last.op \in {"pack", "unpack"} /\ last.raised = "none" /\ last.ret.kind = "int")
    => last.ret.n = FixedSize(last.variant)

\* C5: bounds checking.  A pack or unpack whose buffer holds fewer than the
\* fixed size bytes from the offset on ends in struct.error; none returns.
BoundsChecked ==
    (last.op \in {"pack", "unpack"} /\ ~Fits) => last.raised = "struct.error"

BoundsCheckedWitness ==
    /\ last.op = "unpack"
    /\ last.variant = "ResetRequest"
    /\ last.offset = 0
    /\ Len(last.pre_buffer) = 3
    /\ last.raised = "struct.error"

\* The unpack method of the last call's variant.
UnpackOf(self, buf, offset) ==
    CASE self.variant = "CommandResponseMessage" ->
            CommandResponseMessage_unpack(self, buf, offset)
      [] self.variant = "MessageRequest" -> MessageRequest_unpack(self, buf, offset)
      [] self.variant = "ResetRequest" -> ResetRequest_unpack(self, buf, offset)

\* Indices, within a variant's region, of its padding bytes (1-based).
PaddingIndices(variant) ==
    CASE variant = "CommandResponseMessage" -> {6, 7, 8}
      [] variant = "MessageRequest" -> {3, 4}
      [] OTHER -> {}

\* The buffer of the last call with every padding byte of the region
\* replaced by p.
Repadded(p) ==
    [i \in 1..Len(last.pre_buffer) |->
        IF (i - last.offset) \in PaddingIndices(last.variant)
        THEN p ELSE last.pre_buffer[i]]

\* C6: padding.  A pack that returns has written 0x00 in every padding byte
\* of the region, whatever the buffer held; and an unpack that returns has
\* produced the field values it produces from the same buffer with other
\* padding bytes.
PaddingZeroedAndIgnored ==
    /\ PackReturned => \A i \in PaddingIndices(last.variant) : WrittenRegion[i] = 0
    /\ UnpackReturned =>
          \A p \in {0, 255} :
             UnpackOf(last.pre_msg, Repadded(p), last.offset).self = msg

PaddingWitness ==
    /\ PackReturned
    /\ last.variant = "MessageRequest"
    /\ last.given
    /\ last.offset > 0
    /\ \A i \in PaddingIndices(last.variant) :
          last.pre_buffer[last.offset + i] # 0 /\ buffer[last.offset + i] = 0

\* Number of leading bytes of a variant's region that hold fields.
FieldBytes(variant) ==
    CASE variant = "CommandResponseMessage" -> 5
      [] variant = "MessageRequest" -> 2
      [] OTHER -> 4

\* C7: wire layout.  A pack that returns has written each field
\* little-endian at its documented position and zero in the padding
\* (CommandResponse{42, VALUE_ERROR} as 2A 00 00 00 03 00 00 00,
\* ResetRequest{0x000001FF} as FF 01 00 00); an unpack that returns holds the
\* fields whose encoding is the bytes it read.
WireLayout ==
    /\ PackReturned => WrittenRegion = WireBytes(msg)
    /\ (/\ PackReturned
        /\ msg = [CommandResponseMessage_init EXCEPT
                    !.source_sequence_num = U32(0, 42),
                    !.response = ResponseMember(VALUE_ERROR)])
       => WrittenRegion = <<42, 0, 0, 0, 3, 0, 0, 0>>
    /\ (PackReturned /\ msg = [ResetRequest_init EXCEPT !.reset_mask = WARM_START])
       => WrittenRegion = <<255, 1, 0, 0>>
    /\ UnpackReturned =>
          SubSeq(WireBytes(msg), 1, FieldBytes(last.variant))
             = SubSeq(ReadRegion, 1, FieldBytes(last.variant))

WireLayoutWitness ==
    /\ PackReturned
    /\ last.given
    /\ last.offset > 0
    /\ msg.variant = "CommandResponseMessage"
    /\ msg.source_sequence_num = U32(0, 42)
    /\ msg.response = ResponseMember(VALUE_ERROR)
    /\ SubSeq(buffer, last.offset + 1, last.offset + 8) = <<42, 0, 0, 0, 3, 0, 0, 0>>

\* C8: pack never resizes or replaces a supplied buffer.  After a pack into
\* a supplied buffer returns, the buffer has its former length, every byte
\* outside [offset, offset + size) is unchanged, and with return_buffer=True
\* the value returned is that same buffer.
SuppliedBufferKept ==
    (PackReturned /\ last.given) =>
        /\ last.obj = "supplied"
        /\ Len(buffer) = Len(last.pre_buffer)
        /\ \A i \in 1..Len(last.pre_buffer) :
              (i <= last.offset \/ i > last.offset + FixedSize(last.variant))
              => buffer[i] = last.pre_buffer[i]
        /\ last.return_buffer => last.ret = RetBuffer("supplied", buffer)

SuppliedBufferWitness ==
    /\ PackReturned
    /\ last.given
    /\ last.return_buffer
    /\ last.variant = "ResetRequest"
    /\ last.offset > 0
    /\ Len(buffer) > last.offset + 4
    /\ SubSeq(buffer, last.offset + 1, last.offset + 4) # ReadRegion

\* C9: pack without a buffer.  The call allocates exactly the fixed size;
\* at offset 0 it returns, and the allocated buffer (the value returned with
\* return_buffer=True) holds the message's encoding; at an offset k > 0 the
\* write does not fit and the call ends in struct.error.
PackAllocates ==
    (last.op = "pack" /\ ~last.given) =>
        /\ last.obj = "allocated"
        /\ Len(last.written) = FixedSize(last.variant)
        /\ last.offset = 0 =>
              /\ last.raised = "none"
              /\ last.written = WireBytes(msg)
              /\ last.return_buffer => last.ret = RetBuffer("allocated", WireBytes(msg))
        /\ last.offset > 0 => last.raised = "struct.error"

PackAllocatesWitness ==
    /\ PackReturned
    /\ ~last.given
    /\ last.offset = 0
    /\ last.return_buffer
    /\ last.variant = "CommandResponseMessage"
    /\ last.ret.kind = "buffer"
    /\ Len(last.ret.bytes) = 8
    /\ buffer = last.ret.bytes
    /\ last.pre_buffer # buffer

\* C10: a failed unpack is atomic.  Whenever unpack raises, every field of
\* the instance holds the value it had before the call.
FailedUnpackAtomic ==
    (last.op = "unpack" /\ last.raised # "none") => msg = last.pre_msg

FailedUnpackWitness ==
    /\ last.op = "unpack"
    /\ last.raised = "struct.error"
    /\ last.variant = "CommandResponseMessage"
    /\ decoded.valid
    /\ Len(buffer) >= 4
    /\ msg.response = PlainInt(200)
    /\ msg \notin FreshInstances

=============================================================================
